---- MODULE Spec2Model ----
(***************************************************************************)
(* State-machine model of the swing-trading engine:                        *)
(*   strategy.py          calculate_macd, detect_fvg, check_entry_trigger, *)
(*                        calculate_position_size, execute_trade,          *)
(*                        manage_positions                                 *)
(*   position_manager.py  PositionManager (the ledger)                     *)
(*   exchange_manager.py  ExchangeManager (the gateway, paper and live)    *)
(*   main.py              process_symbol, run_live                         *)
(*                                                                         *)
(* Prices are even integers, so that mid = (top + bottom) / 2 is exact.    *)
(* Amounts and balances are exact rationals [n, d] in lowest terms.        *)
(* Python indices are kept as they are (0-based); Row(df, i) reads the     *)
(* i-th row of a frame.                                                    *)
(***************************************************************************)
EXTENDS Integers, Sequences, FiniteSets, TLC

\* ------------------------------------------------------------------ bounds

\* longest candle series the gap detector is run on
MaxLen == 4
\* longest list of previously active gaps handed to detect_fvg
MaxExisting == 5
\* largest crossover_lookback option handed to check_entry_trigger
MaxLookback == 2
\* live cycles run_live is followed for
MaxCycles == 2
\* last UTC date the clock reaches
MaxDay == 2
\* entry orders followed
MaxOrders == 2
\* direct calls of ledger operations followed
MaxCalls == 4
\* candles a replayed series has after the three that form its first gap
MaxBars == 3

\* ------------------------------------------------------- program constants

\* strategy.py:69  "expiry_index": idx + 20
ExpiryBars == 20
\* strategy.py:73  sorted(...)[:3]
MaxActive == 3
\* strategy.py:134  tp = entry_price +/- 2 * risk
RewardRisk == 2
\* exchange_manager.py:18  self.retry_attempts = 3
retry_attempts == 3
\* exchange_manager.py:19  self.backoff_base = 2
backoff_base == 2

\* configuration read by main.py:67 (config.get("macd_fast", 12) etc.); the
\* configured spans are small so that the exact EMA numerators stay in range
MacdFast == 1
MacdSlow == 3
MacdSignal == 2

\* ----------------------------------------------------------------- inputs

Prices == {2, 4, 6}

Candle(h, l, c) == [high |-> h, low |-> l, close |-> c]

\* the candles a series is drawn from, as the strategy reads them: high, low,
\* close (open, volume and the timestamp are never read by the decision
\* logic): a flat candle at each price level and a wide one closing mid-range
Candles == {Candle(p, p, p) : p \in Prices} \cup {Candle(6, 2, 4)}

RECURSIVE SeqsUpTo(_, _)
SeqsUpTo(S, n) ==
  IF n = 0 THEN {<<>>}
  ELSE LET shorter == SeqsUpTo(S, n - 1)
       IN  shorter \cup {Append(s, x) : s \in {t \in shorter : Len(t) = n - 1}, x \in S}

\* ---------------------------------------------------------------- helpers

Min(a, b) == IF a <= b THEN a ELSE b
Abs(a) == IF a < 0 THEN -a ELSE a
Sign(a) == IF a < 0 THEN -1 ELSE IF a > 0 THEN 1 ELSE 0

RECURSIVE Pow(_, _)
Pow(b, e) == IF e = 0 THEN 1 ELSE b * Pow(b, e - 1)

\* df.iloc[i]
Row(df, i) == df[i + 1]
\* df.iloc[: n]
Window(df, n) == SubSeq(df, 1, n)

\* ------------------------------------------------------------ strategy.py

\* the smoothing factor 2 / (span + 1) of ewm(span=s), in lowest terms
AlphaNum(s) == IF (s + 1) % 2 = 0 THEN 1 ELSE 2
AlphaDen(s) == IF (s + 1) % 2 = 0 THEN (s + 1) \div 2 ELSE s + 1

\* EMA of the close with span s (adjust=False: seeded from the first value),
\* as the numerator of ema[t] over AlphaDen(s)^t:
\*   ema[t] = alpha * x[t] + (1 - alpha) * ema[t-1]
RECURSIVE EmaNum(_, _, _)
EmaNum(df, s, t) ==
  IF t = 0 THEN Row(df, 0).close
  ELSE AlphaNum(s) * Row(df, t).close * Pow(AlphaDen(s), t - 1)
         + (AlphaDen(s) - AlphaNum(s)) * EmaNum(df, s, t - 1)

MacdScale == AlphaDen(MacdFast) * AlphaDen(MacdSlow)

\* macd[t] = ema_fast[t] - ema_slow[t], as the numerator over MacdScale^t
MacdNum(df, t) ==
  EmaNum(df, MacdFast, t) * Pow(AlphaDen(MacdSlow), t)
    - EmaNum(df, MacdSlow, t) * Pow(AlphaDen(MacdFast), t)

\* signal[t] = EMA of macd with span MacdSignal, as the numerator over
\* (MacdScale * AlphaDen(MacdSignal))^t
RECURSIVE SignalNum(_, _)
SignalNum(df, t) ==
  IF t = 0 THEN MacdNum(df, 0)
  ELSE AlphaNum(MacdSignal) * MacdNum(df, t) * Pow(AlphaDen(MacdSignal), t - 1)
         + (AlphaDen(MacdSignal) - AlphaNum(MacdSignal)) * MacdScale * SignalNum(df, t - 1)

\* calculate_macd: np.sign(macd[t] - signal[t]), the only part of the derived
\* columns the trigger reads
calculate_macd(df, t) ==
  Sign(MacdNum(df, t) * Pow(AlphaDen(MacdSignal), t) - SignalNum(df, t))

NoGap == [type |-> "none"]

MkGap(type, top, bottom, idx) ==
  [type |-> type, top |-> top, bottom |-> bottom, mid |-> (top + bottom) \div 2,
   candle1_idx |-> idx - 2, detected_idx |-> idx, expiry_index |-> idx + ExpiryBars]

fvg_filled(df, fvg) ==
  LET last_close == Row(df, Len(df) - 1).close
  IN  IF fvg.type = "bullish" THEN last_close <= fvg.bottom
      ELSE last_close >= fvg.top

\* detect_fvg, first loop: the previously active gaps that are kept
CarryForward(df, existing_fvgs) ==
  LET last_idx == Len(df) - 1
      Keep(g) == g.expiry_index >= last_idx /\ ~fvg_filled(df, g)
  IN  SelectSeq(existing_fvgs, Keep)

\* ScanEmit accepting a touching pair of extremes (>= for >, <= for <)
ScanEmit_Touching(df, idx) ==
  LET c1 == Row(df, idx - 2)
      c3 == Row(df, idx)
  IN  IF c3.low >= c1.high THEN MkGap("bullish", c3.low, c1.high, idx)
      ELSE IF c3.high <= c1.low THEN MkGap("bearish", c1.high, c3.low, idx)
      ELSE NoGap

\* ScanEmit taking the bearish zone from the wrong candles
ScanEmit_BearishSwapped(df, idx) ==
  LET c1 == Row(df, idx - 2)
      c3 == Row(df, idx)
  IN  IF c3.low > c1.high THEN MkGap("bullish", c3.low, c1.high, idx)
      ELSE IF c3.high < c1.low THEN MkGap("bearish", c3.low, c1.high, idx)
      ELSE NoGap

\* detect_fvg, scan body: the gap formed by candles idx-2 and idx, if any
ScanEmit(df, idx) ==
  LET c1 == Row(df, idx - 2)
      c3 == Row(df, idx)
  IN  IF c3.low > c1.high THEN MkGap("bullish", c3.low, c1.high, idx)
      ELSE IF c3.high < c1.low THEN MkGap("bearish", c1.high, c3.low, idx)
      ELSE NoGap

\* stable insertion of g behind every element whose key is >= its own
RECURSIVE InsertDesc(_, _)
InsertDesc(s, g) ==
  IF s = <<>> THEN <<g>>
  ELSE IF Head(s).detected_idx >= g.detected_idx
       THEN <<Head(s)>> \o InsertDesc(Tail(s), g)
       ELSE <<g>> \o s

\* sorted(active, key=detected_idx, reverse=True): stable, newest first
RECURSIVE SortDesc(_)
SortDesc(s) ==
  IF s = <<>> THEN <<>>
  ELSE InsertDesc(SortDesc(SubSeq(s, 1, Len(s) - 1)), s[Len(s)])

\* detect_fvg, scan body: append the emitted gap, sort and cut to three
ScanStep(df, act, idx) ==
  LET g == ScanEmit(df, idx)
  IN  IF g = NoGap THEN act
      ELSE LET sorted == SortDesc(Append(act, g))
           IN  SubSeq(sorted, 1, Min(MaxActive, Len(sorted)))

RECURSIVE ScanFrom(_, _, _)
ScanFrom(df, act, idx) ==
  IF idx >= Len(df) THEN act
  ELSE ScanFrom(df, ScanStep(df, act, idx), idx + 1)

detect_fvg(df, existing_fvgs) == ScanFrom(df, CarryForward(df, existing_fvgs), 2)

\* _recent_crossover over the last lookback + 1 rows
recent_crossover(df, lookback, direction) ==
  IF Len(df) < lookback + 1 THEN TRUE
  ELSE LET first == Len(df) - lookback - 1
       IN  \E i \in (first + 1)..(Len(df) - 1) :
             \/ /\ calculate_macd(df, i - 1) < 0
                /\ 0 < calculate_macd(df, i)
                /\ direction = "bullish"
             \/ /\ calculate_macd(df, i - 1) > 0
                /\ 0 > calculate_macd(df, i)
                /\ direction = "bearish"

\* the signal dict with the target laid above the entry for either kind
MkSignal_TargetAbove(df, fvg) ==
  LET bull == fvg.type = "bullish"
      entry_price == Row(df, Len(df) - 1).close
      sl == IF bull THEN fvg.bottom ELSE fvg.top
      risk == Abs(entry_price - sl)
  IN  [direction |-> IF bull THEN "bullish" ELSE "bearish",
       side |-> IF bull THEN "buy" ELSE "sell",
       entry_price |-> entry_price,
       sl |-> sl,
       tp |-> entry_price + RewardRisk * risk,
       fvg |-> fvg]

\* check_entry_trigger lines 127-150: the signal dict built for a gap
MkSignal(df, fvg) ==
  LET bull == fvg.type = "bullish"
      entry_price == Row(df, Len(df) - 1).close
      sl == IF bull THEN fvg.bottom ELSE fvg.top
      risk == Abs(entry_price - sl)
  IN  [direction |-> IF bull THEN "bullish" ELSE "bearish",
       side |-> IF bull THEN "buy" ELSE "sell",
       entry_price |-> entry_price,
       sl |-> sl,
       tp |-> IF bull THEN entry_price + RewardRisk * risk
              ELSE entry_price - RewardRisk * risk,
       fvg |-> fvg]

\* Triggers without the wrong-side-stop rejection of lines 128-131
Triggers_NoStopGuard(df, fvg, macd_recent_crossover, crossover_lookback) ==
  LET trigger_idx == Len(df) - 1
      trigger_row == Row(df, trigger_idx)
      bull == fvg.type = "bullish"
      direction == IF bull THEN "bullish" ELSE "bearish"
      touched == trigger_row.low <= fvg.mid /\ fvg.mid <= trigger_row.high
      macd_ok == IF bull THEN calculate_macd(df, trigger_idx) > 0
                 ELSE calculate_macd(df, trigger_idx) < 0
  IN  /\ fvg.expiry_index >= trigger_idx
      /\ touched
      /\ macd_ok
      /\ macd_recent_crossover => recent_crossover(df, crossover_lookback, direction)

\* check_entry_trigger, loop body: does this gap yield a signal
Triggers(df, fvg, macd_recent_crossover, crossover_lookback) ==
  LET trigger_idx == Len(df) - 1
      trigger_row == Row(df, trigger_idx)
      bull == fvg.type = "bullish"
      direction == IF bull THEN "bullish" ELSE "bearish"
      touched == trigger_row.low <= fvg.mid /\ fvg.mid <= trigger_row.high
      macd_ok == IF bull THEN calculate_macd(df, trigger_idx) > 0
                 ELSE calculate_macd(df, trigger_idx) < 0
      sl == IF bull THEN fvg.bottom ELSE fvg.top
      entry_price == trigger_row.close
  IN  /\ fvg.expiry_index >= trigger_idx
      /\ touched
      /\ macd_ok
      /\ macd_recent_crossover => recent_crossover(df, crossover_lookback, direction)
      /\ ~(bull /\ sl >= entry_price)
      /\ ~(~bull /\ sl <= entry_price)

check_entry_trigger(df, fvg_list, macd_recent_crossover, crossover_lookback) ==
  IF Len(df) < 3 THEN <<>>
  ELSE LET Hit(g) == Triggers(df, g, macd_recent_crossover, crossover_lookback)
           hits == SelectSeq(fvg_list, Hit)
       IN  [i \in 1..Len(hits) |-> MkSignal(df, hits[i])]

\* ---------------------------------------------------------------- rationals

RECURSIVE GCD(_, _)
GCD(a, b) == IF b = 0 THEN a ELSE GCD(b, a % b)

\* n / d in lowest terms, d > 0
Rat(n, d) ==
  LET g == GCD(Abs(n), d)
  IN  [n |-> n \div g, d |-> d \div g]

RInt(i) == [n |-> i, d |-> 1]
RAdd(a, b) == Rat(a.n * b.d + b.n * a.d, a.d * b.d)
RSub(a, b) == Rat(a.n * b.d - b.n * a.d, a.d * b.d)
RMul(a, b) == Rat(a.n * b.n, a.d * b.d)
RLe(a, b) == a.n * b.d <= b.n * a.d
RLt(a, b) == a.n * b.d < b.n * a.d

\* Python's None where a number is expected
None == -1
NoRat == [n |-> 0, d |-> 0]

\* ---------------------------------------------------------- configuration

\* config["symbols"]
Symbols == <<"A", "B">>
SymbolSet == {Symbols[i] : i \in 1..Len(Symbols)}

\* config.get("starting_balance", 10000.0); a small configured balance keeps
\* the exact arithmetic in range
starting_balance == RInt(100)
\* config.get("risk_per_trade", 0.01), configured to 0.1
risk_per_trade == Rat(1, 10)
\* PositionManager(..., daily_loss_limit_pct=0.05)
daily_loss_limit_pct == Rat(5, 100)
\* config.get("max_concurrent_positions", 5) as most runs have it configured:
\* the symbol count
DefaultCap == Len(Symbols)

\* ----------------------------------------------------- position_manager.py

NoPosition == [status |-> "none"]

\* has_open_position
has_open_position(pos, symbol) == pos[symbol].status = "open"

\* total_open_positions
total_open_positions(pos) == Cardinality({s \in SymbolSet : pos[s].status = "open"})

\* the cap test letting one position more through (> for >=)
at_capacity_Strict(pos, cap) == total_open_positions(pos) > cap

\* main.py line 48: total_open_positions() >= max_concurrent_positions
at_capacity(pos, cap) == total_open_positions(pos) >= cap

\* open_position: the record is stored without looking at the one it replaces
open_position(pos, symbol, data) == [pos EXCEPT ![symbol] = data]

\* close_position closing whatever record it finds, open or not
close_position_Reclose(pos, bal, symbol, exit_price, reason, now) ==
  LET position == pos[symbol]
  IN  IF position.status = "none"
      THEN [raised |-> FALSE, ret |-> NoPosition, positions |-> pos, paper_balance |-> bal]
      ELSE IF position.entry_price = None
      THEN [raised |-> TRUE, ret |-> NoPosition, positions |-> pos, paper_balance |-> bal]
      ELSE LET pnl_per_unit == IF position.side = "buy"
                               THEN exit_price - position.entry_price
                               ELSE position.entry_price - exit_price
               pnl == RMul(RInt(pnl_per_unit), position.amount)
               closed == [position EXCEPT !.status = "closed",
                                          !.exit_price = exit_price,
                                          !.exit_reason = reason,
                                          !.exit_time = now,
                                          !.pnl = pnl]
           IN  [raised |-> FALSE, ret |-> closed,
                positions |-> [pos EXCEPT ![symbol] = closed],
                paper_balance |-> RAdd(bal, pnl)]

\* close_position indexing the map (self.positions[symbol]) instead of .get:
\* a KeyError when the symbol has no record
close_position_KeyError(pos, bal, symbol, exit_price, reason, now) ==
  LET position == pos[symbol]
  IN  IF position.status = "none"
      THEN [raised |-> TRUE, ret |-> NoPosition, positions |-> pos, paper_balance |-> bal]
      ELSE IF position.status # "open"
      THEN [raised |-> FALSE, ret |-> NoPosition, positions |-> pos, paper_balance |-> bal]
      ELSE IF position.entry_price = None
      THEN [raised |-> TRUE, ret |-> NoPosition, positions |-> pos, paper_balance |-> bal]
      ELSE LET pnl_per_unit == IF position.side = "buy"
                               THEN exit_price - position.entry_price
                               ELSE position.entry_price - exit_price
               pnl == RMul(RInt(pnl_per_unit), position.amount)
               closed == [position EXCEPT !.status = "closed",
                                          !.exit_price = exit_price,
                                          !.exit_reason = reason,
                                          !.exit_time = now,
                                          !.pnl = pnl]
           IN  [raised |-> FALSE, ret |-> closed,
                positions |-> [pos EXCEPT ![symbol] = closed],
                paper_balance |-> RAdd(bal, pnl)]

\* close_position computing every P&L as a long's (exit - entry)
close_position_LongOnly(pos, bal, symbol, exit_price, reason, now) ==
  LET position == pos[symbol]
  IN  IF position.status # "open"
      THEN [raised |-> FALSE, ret |-> NoPosition, positions |-> pos, paper_balance |-> bal]
      ELSE IF position.entry_price = None
      THEN [raised |-> TRUE, ret |-> NoPosition, positions |-> pos, paper_balance |-> bal]
      ELSE LET pnl == RMul(RInt(exit_price - position.entry_price), position.amount)
               closed == [position EXCEPT !.status = "closed",
                                          !.exit_price = exit_price,
                                          !.exit_reason = reason,
                                          !.exit_time = now,
                                          !.pnl = pnl]
           IN  [raised |-> FALSE, ret |-> closed,
                positions |-> [pos EXCEPT ![symbol] = closed],
                paper_balance |-> RAdd(bal, pnl)]

\* close_position: [raised, ret, positions, paper_balance]
\* (exit - entry raises TypeError when the stored entry price is None)
close_position(pos, bal, symbol, exit_price, reason, now) ==
  LET position == pos[symbol]
  IN  IF position.status # "open"
      THEN [raised |-> FALSE, ret |-> NoPosition, positions |-> pos, paper_balance |-> bal]
      ELSE IF position.entry_price = None
      THEN [raised |-> TRUE, ret |-> NoPosition, positions |-> pos, paper_balance |-> bal]
      ELSE LET pnl_per_unit == IF position.side = "buy"
                               THEN exit_price - position.entry_price
                               ELSE position.entry_price - exit_price
               pnl == RMul(RInt(pnl_per_unit), position.amount)
               closed == [position EXCEPT !.status = "closed",
                                          !.exit_price = exit_price,
                                          !.exit_reason = reason,
                                          !.exit_time = now,
                                          !.pnl = pnl]
           IN  [raised |-> FALSE, ret |-> closed,
                positions |-> [pos EXCEPT ![symbol] = closed],
                paper_balance |-> RAdd(bal, pnl)]

\* enforce_daily_reset
enforce_daily_reset(day, balance, now) ==
  IF day.date # now THEN [date |-> now, start_balance |-> balance] ELSE day

\* hit_daily_loss_limit: [hit, daily]
hit_daily_loss_limit(day, balance, now) ==
  LET d == enforce_daily_reset(day, balance, now)
      start_balance == d.start_balance
      max_loss == RMul(start_balance, daily_loss_limit_pct)
  IN  [hit |-> IF RLe(start_balance, RInt(0)) THEN FALSE
               ELSE RLe(balance, RSub(start_balance, max_loss)),
       daily |-> d]

\* json.dump and json.load, value by value: a number or None becomes a JSON
\* number or null and comes back as the same Python value (a key that is
\* missing stays missing, which the model writes as the null form too)
json_number(x) == IF x = None THEN [json |-> "null"] ELSE [json |-> "number", value |-> x]
json_float(r) == IF r = NoRat THEN [json |-> "null"] ELSE [json |-> "number", value |-> r]
py_number(j) == IF j.json = "null" THEN None ELSE j.value
py_float(j) == IF j.json = "null" THEN NoRat ELSE j.value

\* a position record as a JSON object; a symbol without a record has no key
json_position(p) ==
  IF p.status = "none" THEN [json |-> "absent"]
  ELSE [json |-> "object", symbol |-> p.symbol, side |-> p.side,
        amount |-> json_float(p.amount), entry_price |-> json_number(p.entry_price),
        stop_loss |-> json_number(p.stop_loss), take_profit |-> json_number(p.take_profit),
        status |-> p.status, entry_time |-> json_number(p.entry_time),
        entry_id |-> json_number(p.entry_id), exit_price |-> json_number(p.exit_price),
        exit_reason |-> p.exit_reason, exit_time |-> json_number(p.exit_time),
        pnl |-> json_float(p.pnl)]

py_position(j) ==
  IF j.json = "absent" THEN NoPosition
  ELSE [symbol |-> j.symbol, side |-> j.side,
        amount |-> py_float(j.amount), entry_price |-> py_number(j.entry_price),
        stop_loss |-> py_number(j.stop_loss), take_profit |-> py_number(j.take_profit),
        status |-> j.status, entry_time |-> py_number(j.entry_time),
        entry_id |-> py_number(j.entry_id), exit_price |-> py_number(j.exit_price),
        exit_reason |-> j.exit_reason, exit_time |-> py_number(j.exit_time),
        pnl |-> py_float(j.pnl)]

\* a gap record as a JSON object
json_gap(g) ==
  [json |-> "object", type |-> g.type, top |-> json_number(g.top),
   bottom |-> json_number(g.bottom), mid |-> json_number(g.mid),
   candle1_idx |-> json_number(g.candle1_idx),
   detected_idx |-> json_number(g.detected_idx),
   expiry_index |-> json_number(g.expiry_index)]

py_gap(j) ==
  [type |-> j.type, top |-> py_number(j.top), bottom |-> py_number(j.bottom),
   mid |-> py_number(j.mid), candle1_idx |-> py_number(j.candle1_idx),
   detected_idx |-> py_number(j.detected_idx),
   expiry_index |-> py_number(j.expiry_index)]

\* save_state: the payload of lines 34-39 written by json.dump
save_state(pos, gaps, bal, day) ==
  [exists |-> TRUE,
   data |-> [positions |-> [s \in SymbolSet |-> json_position(pos[s])],
             fvgs |-> [s \in SymbolSet |->
                         [i \in 1..Len(gaps[s]) |-> json_gap(gaps[s][i])]],
             paper_balance |-> json_float(bal),
             daily |-> [date |-> json_number(day.date),
                        start_balance |-> json_float(day.start_balance)]]]

\* PositionManager.__init__ and load_state: the defaults of lines 14-17, or
\* what json.load reads back: [positions, fvgs, paper_balance, daily]
load_state(file) ==
  IF ~file.exists
  THEN [positions |-> [s \in SymbolSet |-> NoPosition],
        fvgs |-> [s \in SymbolSet |-> <<>>],
        paper_balance |-> RInt(0),
        daily |-> [date |-> 0, start_balance |-> RInt(0)]]
  ELSE [positions |-> [s \in SymbolSet |-> py_position(file.data.positions[s])],
        fvgs |-> [s \in SymbolSet |->
                    [i \in 1..Len(file.data.fvgs[s]) |-> py_gap(file.data.fvgs[s][i])]],
        paper_balance |-> py_float(file.data.paper_balance),
        daily |-> [date |-> py_number(file.data.daily.date),
                   start_balance |-> py_float(file.data.daily.start_balance)]]

\* ExchangeManager.__init__, lines 23-24: the paper balance the gateway leaves
\* in the ledger it is given
seed_paper_balance(is_paper, bal) ==
  IF is_paper /\ bal = RInt(0) THEN starting_balance ELSE bal

\* start-up: the ledger is loaded, then the gateway is constructed on it
startup(file, is_paper) ==
  LET loaded == load_state(file)
  IN  [loaded EXCEPT !.paper_balance = seed_paper_balance(is_paper, loaded.paper_balance)]

\* ------------------------------------------------------------ strategy.py

\* calculate_position_size without the test of the stop against zero
calculate_position_size_NoStopGuard(bal, risk_pct, entry, sl) ==
  IF entry <= 0 THEN RInt(0)
  ELSE LET risk_amount == RMul(bal, risk_pct)
           unit_risk == Abs(entry - sl)
       IN  IF unit_risk = 0 THEN RInt(0)
           ELSE RMul(risk_amount, Rat(1, unit_risk))

\* calculate_position_size
calculate_position_size(bal, risk_pct, entry, sl) ==
  IF entry <= 0 \/ sl <= 0 THEN RInt(0)
  ELSE LET risk_amount == RMul(bal, risk_pct)
           unit_risk == Abs(entry - sl)
       IN  IF unit_risk = 0 THEN RInt(0)
           ELSE RMul(risk_amount, Rat(1, unit_risk))

\* ------------------------------------------------------ exchange_manager.py

\* create_market_order: [raised, price, paper_balance]
\*   paper: px is what fetch_price returned (None when the ticker call failed)
\*   live:  ok says whether client.create_order came back, px is its "price"
create_market_order(is_paper, bal, amount, px, ok) ==
  IF is_paper
  THEN IF px = None
       THEN [raised |-> TRUE, price |-> None, paper_balance |-> bal]
       ELSE LET cost == RMul(RInt(px), amount)
            IN  IF RLt(bal, cost)
                THEN [raised |-> TRUE, price |-> None, paper_balance |-> bal]
                ELSE [raised |-> FALSE, price |-> px, paper_balance |-> RSub(bal, cost)]
  ELSE IF ~ok
       THEN [raised |-> TRUE, price |-> None, paper_balance |-> bal]
       ELSE [raised |-> FALSE, price |-> px, paper_balance |-> bal]

\* create_stop_order / create_take_profit_order: TRUE when the call raises
bracket_order_raises(is_paper, ok) == ~is_paper /\ ~ok

\* ------------------------------------------------------------ strategy.py

\* the payload execute_trade builds; the exit fields a later close adds are
\* carried as None from the start
Payload(symbol, side, amount, price, sl, tp, now, oid) ==
  [symbol |-> symbol, side |-> side, amount |-> amount, entry_price |-> price,
   stop_loss |-> sl, take_profit |-> tp, status |-> "open", entry_time |-> now,
   entry_id |-> oid, exit_price |-> None, exit_reason |-> "", exit_time |-> None,
   pnl |-> NoRat]

\* one order placement of execute_trade, and whether it came back
Order(kind, ok) == [kind |-> kind, ok |-> ok]

\* execute_trade recording the position as soon as the entry order is in,
\* before the stop and take-profit orders are placed
execute_trade_RecordOnEntry(is_paper, pos, bal, symbol, side, amount, sl, tp, px, ok, sl_ok, tp_ok, now, oid) ==
  LET entry_order == create_market_order(is_paper, bal, amount, px, ok)
      recorded == open_position(pos, symbol,
                    Payload(symbol, side, amount, entry_order.price, sl, tp, now, oid))
  IN  IF entry_order.raised
      THEN [raised |-> TRUE, positions |-> pos, paper_balance |-> bal,
            orders |-> <<Order("entry", FALSE)>>]
      ELSE IF bracket_order_raises(is_paper, sl_ok)
      THEN [raised |-> TRUE, positions |-> recorded,
            paper_balance |-> entry_order.paper_balance,
            orders |-> <<Order("entry", TRUE), Order("stop", FALSE)>>]
      ELSE IF bracket_order_raises(is_paper, tp_ok)
      THEN [raised |-> TRUE, positions |-> recorded,
            paper_balance |-> entry_order.paper_balance,
            orders |-> <<Order("entry", TRUE), Order("stop", TRUE),
                         Order("take_profit", FALSE)>>]
      ELSE [raised |-> FALSE, positions |-> recorded,
            paper_balance |-> entry_order.paper_balance,
            orders |-> <<Order("entry", TRUE), Order("stop", TRUE),
                         Order("take_profit", TRUE)>>]

\* execute_trade: [raised, positions, paper_balance, orders], orders being the
\* placements it made, in order; a placement that raises ends it (lines
\* 175-178 come before open_position at line 197)
execute_trade(is_paper, pos, bal, symbol, side, amount, sl, tp, px, ok, sl_ok, tp_ok, now, oid) ==
  LET entry_order == create_market_order(is_paper, bal, amount, px, ok)
  IN  IF entry_order.raised
      THEN [raised |-> TRUE, positions |-> pos, paper_balance |-> bal,
            orders |-> <<Order("entry", FALSE)>>]
      ELSE IF bracket_order_raises(is_paper, sl_ok)
      THEN [raised |-> TRUE, positions |-> pos,
            paper_balance |-> entry_order.paper_balance,
            orders |-> <<Order("entry", TRUE), Order("stop", FALSE)>>]
      ELSE IF bracket_order_raises(is_paper, tp_ok)
      THEN [raised |-> TRUE, positions |-> pos,
            paper_balance |-> entry_order.paper_balance,
            orders |-> <<Order("entry", TRUE), Order("stop", TRUE),
                         Order("take_profit", FALSE)>>]
      ELSE [raised |-> FALSE,
            positions |-> open_position(pos, symbol,
                            Payload(symbol, side, amount, entry_order.price, sl, tp, now, oid)),
            paper_balance |-> entry_order.paper_balance,
            orders |-> <<Order("entry", TRUE), Order("stop", TRUE),
                         Order("take_profit", TRUE)>>]

\* manage_positions, loop body for one symbol: [raised, positions, paper_balance]
manage_symbol(pos, bal, symbol, price, now) ==
  LET same == [raised |-> FALSE, ret |-> NoPosition, positions |-> pos, paper_balance |-> bal]
      position == pos[symbol]
  IN  IF ~has_open_position(pos, symbol) THEN same
      ELSE IF price = None THEN same
      ELSE IF position.side = "buy"
      THEN IF price <= position.stop_loss
           THEN close_position(pos, bal, symbol, price, "stop_loss", now)
           ELSE IF price >= position.take_profit
           THEN close_position(pos, bal, symbol, price, "take_profit", now)
           ELSE same
      ELSE IF price >= position.stop_loss
           THEN close_position(pos, bal, symbol, price, "stop_loss", now)
           ELSE IF price <= position.take_profit
           THEN close_position(pos, bal, symbol, price, "take_profit", now)
           ELSE same

\* manage_positions over symbols[i..]: stops at the first raise
RECURSIVE manage_positions(_, _, _, _, _)
manage_positions(pos, bal, i, prices, now) ==
  IF i > Len(Symbols) THEN [raised |-> FALSE, positions |-> pos, paper_balance |-> bal]
  ELSE LET r == manage_symbol(pos, bal, Symbols[i], prices[Symbols[i]], now)
       IN  IF r.raised THEN [raised |-> TRUE, positions |-> r.positions,
                             paper_balance |-> r.paper_balance]
           ELSE manage_positions(r.positions, r.paper_balance, i + 1, prices, now)

\* ------------------------------------------------------------------ state

VARIABLES
  \* detect_fvg / check_entry_trigger run on their own
  df,              \* the candle series passed in
  existing_fvgs,   \* the previously active gaps passed in
  active,          \* detect_fvg's list under construction, then its result
  idx,             \* the scan index
  fvg,             \* the gap the last scan iteration built (NoGap: none)
  signals,         \* check_entry_trigger's result
  gpc,             \* "idle", "carry", "scan", "returned", "triggered"
  \* the ledger (PositionManager)
  positions,       \* symbol -> position record
  fvgs,            \* symbol -> stored gap list
  paper_balance,
  daily,           \* [date, start_balance]; date 0 is the empty string
  state_file,      \* what save_state last wrote
  \* the environment and the gateway
  today,           \* current UTC date
  paper,           \* config["paper_trading"]
  max_concurrent_positions,  \* config["max_concurrent_positions"]
  order_seq,       \* ids handed out to entry orders so far
  \* run_live / process_symbol
  pc,              \* "wait", "manage", "process", "trade", "save", "crashed", "api"
  cycle,
  sym_idx,         \* position in config["symbols"]
  pending,         \* process_symbol: signals still to be handled
  balance,         \* process_symbol: the balance fetched before the loop
  breach_day,      \* date of the last "Daily loss limit reached" event (0: none)
  \* a direct call of a ledger operation
  calls,           \* how many such calls were made
  call,            \* the last operation called and its symbol
  ret,             \* what it returned
  raised,          \* whether it (or the driver step) raised
  \* a function called on its own
  fn,              \* [op, args, result] of the last call
  \* what run_live has done since its last wait_for_next_close
  prog,            \* [managed, processed, saves]
  \* run_backtest, one symbol's replay (with df, active, idx, signals above)
  equity,
  open_pos,        \* the simulated position (NoOpenPos: {})
  trades           \* how many simulated positions were opened

gapVars == <<df, existing_fvgs, active, idx, fvg, signals, gpc>>
ledgerVars == <<positions, fvgs, paper_balance, daily, state_file>>
envVars == <<today, paper, max_concurrent_positions, order_seq>>
liveVars == <<pc, cycle, sym_idx, pending, balance, breach_day>>
apiVars == <<calls, call, ret, raised>>
btVars == <<equity, open_pos, trades>>
sideVars == <<fn, btVars>>
auxVars == <<sideVars, prog>>
vars == <<gapVars, ledgerVars, envVars, liveVars, apiVars, auxVars>>

NoFile == [exists |-> FALSE]
NoCall == [op |-> "none", symbol |-> ""]

GapIdle ==
  /\ df = <<>> /\ existing_fvgs = <<>> /\ active = <<>> /\ idx = 0
  /\ fvg = NoGap /\ signals = <<>> /\ gpc = "idle"

\* PositionManager.__init__ with no state file, then ExchangeManager.__init__
LedgerFresh ==
  /\ positions = [s \in SymbolSet |-> NoPosition]
  /\ fvgs = [s \in SymbolSet |-> <<>>]
  /\ paper_balance = IF paper THEN starting_balance ELSE RInt(0)
  /\ daily = [date |-> 0, start_balance |-> RInt(0)]
  /\ state_file = NoFile

DriverIdle ==
  /\ cycle = 0 /\ sym_idx = 1 /\ pending = <<>> /\ balance = RInt(0) /\ breach_day = 0

NoFn == [op |-> "none"]

NoProgress == [managed |-> FALSE, processed |-> {}, saves |-> 0]

\* run_backtest line 175: open_pos = {}
NoOpenPos == [side |-> "none"]

BacktestIdle == equity = RInt(0) /\ open_pos = NoOpenPos /\ trades = 0

AuxIdle == fn = NoFn /\ prog = NoProgress /\ BacktestIdle

ApiIdle == calls = 0 /\ call = NoCall /\ ret = NoPosition /\ raised = FALSE

\* ------------------------------------- detect_fvg and check_entry_trigger alone

\* gaps a caller may hold from an earlier run, newest first as the detector
\* leaves them: bullish and bearish, some that the scan of a fresh series can
\* form again
ExistingPool ==
  <<MkGap("bullish", 6, 4, 3), MkGap("bearish", 6, 4, 3), MkGap("bullish", 4, 2, 2),
    MkGap("bearish", 6, 2, 2), MkGap("bullish", 6, 2, 2), MkGap("bearish", 4, 2, 2)>>

\* every run of consecutive pool entries among the first MaxExisting
ExistingLists ==
  {SubSeq(ExistingPool, i, j) : i \in 1..(MaxExisting + 1), j \in 0..MaxExisting}

\* series long enough for a gap to outlive its ExpiryBars: a bullish gap
\* forms at index 2 (low 4 over high 2), the close stays above it, and the
\* series ends on the gap's expiry index or one candle after it
LongFrames ==
  {<<Candle(2, 2, 2)>> \o [i \in 1..n |-> Candle(4, 4, 4)] \o <<Candle(6, 6, 6)>> :
     n \in {ExpiryBars + 1, ExpiryBars + 2}}

Frames == (SeqsUpTo(Candles, MaxLen) \ {<<>>}) \cup LongFrames

InitGap ==
  /\ df \in Frames
  /\ existing_fvgs \in ExistingLists
  /\ active = <<>> /\ idx = 0 /\ fvg = NoGap /\ signals = <<>> /\ gpc = "carry"
  /\ paper = TRUE /\ max_concurrent_positions = DefaultCap
  /\ today = 1 /\ order_seq = 0
  /\ LedgerFresh /\ DriverIdle /\ pc = "api" /\ ApiIdle /\ AuxIdle

\* detect_fvg, lines 36-41
Carry ==
  /\ gpc = "carry"
  /\ active' = CarryForward(df, existing_fvgs)
  /\ idx' = 2
  /\ gpc' = "scan"
  /\ UNCHANGED <<df, existing_fvgs, fvg, signals>>
  /\ UNCHANGED <<ledgerVars, envVars, liveVars, apiVars, auxVars>>

\* detect_fvg, one iteration of the scan, lines 43-73
Scan ==
  /\ gpc = "scan"
  /\ idx < Len(df)
  /\ fvg' = ScanEmit(df, idx)
  /\ active' = ScanStep(df, active, idx)
  /\ idx' = idx + 1
  /\ UNCHANGED <<df, existing_fvgs, signals, gpc>>
  /\ UNCHANGED <<ledgerVars, envVars, liveVars, apiVars, auxVars>>

\* detect_fvg, line 75
Return ==
  /\ gpc = "scan"
  /\ idx >= Len(df)
  /\ gpc' = "returned"
  /\ UNCHANGED <<df, existing_fvgs, active, idx, fvg, signals>>
  /\ UNCHANGED <<ledgerVars, envVars, liveVars, apiVars, auxVars>>

\* check_entry_trigger on the series, with the detector's result or with the
\* caller's own list, under every option setting
Trigger ==
  /\ gpc = "returned"
  /\ \E fvg_list \in {active, existing_fvgs}, macd_recent_crossover \in BOOLEAN,
        crossover_lookback \in 1..MaxLookback :
       signals' = check_entry_trigger(df, fvg_list, macd_recent_crossover, crossover_lookback)
  /\ gpc' = "triggered"
  /\ UNCHANGED <<df, existing_fvgs, active, idx, fvg>>
  /\ UNCHANGED <<ledgerVars, envVars, liveVars, apiVars, auxVars>>

NextGap == Carry \/ Scan \/ Return \/ Trigger

SpecGap == InitGap /\ [][NextGap]_vars

\* ------------------------------------------------- claims on the gap detector

Returned == gpc \in {"returned", "triggered"}

\* the same gap: kind, top, bottom and detection index agree
SameGap(g, h) ==
  /\ g.type = h.type /\ g.top = h.top /\ g.bottom = h.bottom
  /\ g.detected_idx = h.detected_idx

\* C1: whatever series and list of previously active gaps are passed in, the
\* list detect_fvg returns holds at most 3 gaps.
C1_AtMostThree == Returned => Len(active) <= MaxActive

\* C5: a gap of the input list that is filled against the latest close is
\* absent from the returned list (no returned gap has its kind, top, bottom
\* and detection index).
C5_FilledAbsent ==
  Returned =>
    \A i \in 1..Len(existing_fvgs) :
      fvg_filled(df, existing_fvgs[i]) =>
        \A j \in 1..Len(active) : ~SameGap(active[j], existing_fvgs[i])

\* C6: at every index i >= 2 the scan builds a bullish gap (top = low[i],
\* bottom = high[i-2], mid = (top + bottom) / 2) exactly when low[i] > high[i-2],
\* a bearish gap (top = high[i-2], bottom = low[i]) exactly when high[i] < low[i-2]
\* and the bullish condition is false, nothing when the extremes touch, and
\* nothing at all on a series of fewer than 3 candles.
C6_ScanEmits ==
  /\ (gpc # "carry" /\ idx > 2) =>
       LET i == idx - 1
           lo == Row(df, i).low
           hi == Row(df, i).high
           lo2 == Row(df, i - 2).low
           hi2 == Row(df, i - 2).high
       IN  /\ (fvg.type = "bullish") <=> (lo > hi2)
           /\ (fvg.type = "bearish") <=> (hi < lo2 /\ ~(lo > hi2))
           /\ (fvg.type = "bullish") =>
                /\ fvg.top = lo /\ fvg.bottom = hi2
                /\ 2 * fvg.mid = fvg.top + fvg.bottom
                /\ fvg.detected_idx = i
           /\ (fvg.type = "bearish") =>
                /\ fvg.top = hi2 /\ fvg.bottom = lo
                /\ 2 * fvg.mid = fvg.top + fvg.bottom
                /\ fvg.detected_idx = i
           /\ (~(lo > hi2) /\ ~(hi < lo2)) => fvg = NoGap
  /\ (Returned /\ Len(df) < 3) =>
       fvg = NoGap /\ active = CarryForward(df, existing_fvgs)

\* the scan has just formed the bullish gap of the example: bottom 2, top 4,
\* mid 3
C6_Witness ==
  /\ gpc = "scan" /\ idx = 3
  /\ Row(df, 2).low = 4 /\ Row(df, 0).high = 2
  /\ fvg.type = "bullish" /\ fvg.top = 4 /\ fvg.bottom = 2 /\ fvg.mid = 3

\* C7: given candles with low <= high and input gaps with top >= bottom,
\* every gap detect_fvg returns has top >= bottom.
C7_TopAboveBottom ==
  Returned => \A j \in 1..Len(active) : active[j].top >= active[j].bottom

\* a bearish gap formed by the scan is in the returned list
C7_Witness ==
  /\ Returned
  /\ fvg.type = "bearish"
  /\ \E j \in 1..Len(active) : active[j] = fvg
  /\ \A j \in 1..Len(df) : df[j].low <= df[j].high
  /\ \A j \in 1..Len(existing_fvgs) : existing_fvgs[j].top >= existing_fvgs[j].bottom

\* C8: check_entry_trigger never emits a bullish signal whose stop-loss is >=
\* its entry price, nor a bearish signal whose stop-loss is <= its entry price.
C8_StopOnRightSide ==
  gpc = "triggered" =>
    \A k \in 1..Len(signals) :
      /\ signals[k].direction = "bullish" => signals[k].sl < signals[k].entry_price
      /\ signals[k].direction = "bearish" => signals[k].sl > signals[k].entry_price

\* a signal was emitted while another gap of the list, touched by the trigger
\* candle, had its stop on the wrong side of the close
C8_Witness ==
  /\ gpc = "triggered"
  /\ signals # <<>>
  /\ \E j \in 1..Len(existing_fvgs) :
       LET g == existing_fvgs[j]
           row == Row(df, Len(df) - 1)
       IN  /\ g.type = "bullish"
           /\ row.low <= g.mid /\ g.mid <= row.high
           /\ calculate_macd(df, Len(df) - 1) > 0
           /\ g.bottom >= row.close

\* C23: every signal check_entry_trigger emits has its stop-loss at the source
\* gap's bottom (bullish) or top (bearish), its entry at the trigger candle's
\* close, and its take-profit at entry + 2 * |entry - stop| (bullish) or entry
\* - 2 * |entry - stop| (bearish); so stop < entry < take-profit for a bullish
\* signal and take-profit < entry < stop for a bearish one.
C23_SignalLevels ==
  gpc = "triggered" =>
    \A k \in 1..Len(signals) :
      LET sig == signals[k]
          gap == sig.fvg
          dist == IF sig.entry_price >= sig.sl THEN sig.entry_price - sig.sl
                  ELSE sig.sl - sig.entry_price
      IN  /\ sig.entry_price = df[Len(df)].close
          /\ gap.type = "bullish" =>
               /\ sig.direction = "bullish"
               /\ sig.sl = gap.bottom
               /\ sig.tp = sig.entry_price + 2 * dist
               /\ sig.sl < sig.entry_price /\ sig.entry_price < sig.tp
          /\ gap.type # "bullish" =>
               /\ sig.direction = "bearish"
               /\ sig.sl = gap.top
               /\ sig.tp = sig.entry_price - 2 * dist
               /\ sig.tp < sig.entry_price /\ sig.entry_price < sig.sl

\* a bearish signal was emitted: entry 4 at the trigger close, stop 6 at the
\* gap's top, target 0
C23_Witness ==
  /\ gpc = "triggered"
  /\ \E k \in 1..Len(signals) :
       /\ signals[k].direction = "bearish"
       /\ signals[k].entry_price = 4 /\ signals[k].sl = 6 /\ signals[k].tp = 0

\* C20: no gap in the list detect_fvg returns is expired: every returned gap,
\* carried forward or emitted by the scan, has expiry_index (detection index
\* + 20) >= the last index of the series it was evaluated on.
C20_NoneExpired ==
  Returned => \A j \in 1..Len(active) : active[j].expiry_index >= Len(df) - 1

\* ------------------------------------------------------------ the live loop

\* what the ticker can report
TickerPrices == {2, 6, 14}

\* frames fetch_ohlcv_data can return: an empty one, one without a gap, one
\* with two bullish gaps touched on a rising close, one with a bearish gap
\* touched on a falling close
LiveFrames ==
  {<<>>,
   <<Candle(4, 4, 4), Candle(4, 4, 4), Candle(4, 4, 4)>>,
   <<Candle(2, 2, 2), Candle(2, 2, 2), Candle(4, 4, 4), Candle(4, 4, 4), Candle(6, 2, 6)>>,
   <<Candle(6, 6, 6), Candle(6, 6, 6), Candle(6, 6, 6), Candle(4, 2, 4)>>}

\* what fetch_balance returns when trading live: the account total the
\* exchange reports, or 0.0 when the call fails or reports no USDT/USD total
\* (exchange_manager.py lines 74-80)
LiveBalances == {RInt(0), RInt(90), RInt(100)}

\* the price of the entry order: the ticker's (or None) on paper, the "price"
\* of the exchange's answer (a fill at the trigger close, or None) when live
FillPrices == IF paper THEN TickerPrices \cup {None} ELSE {6, None}

\* whether a live order call comes back (TRUE) or raises; paper orders are
\* never sent
GatewayAnswers == IF paper THEN {TRUE} ELSE BOOLEAN

\* minimum_order_size: None, or the market's smallest amount
MinSizes == {RInt(0), RInt(3)}

\* config.get("macd_recent_crossover", True), config.get("crossover_lookback", 6)
ConfigRecentCrossover == TRUE
ConfigCrossoverLookback == 6

\* what save_state leaves on disk for the ledger as it stands
Snapshot == save_state(positions, fvgs, paper_balance, daily)

InitLive ==
  /\ paper \in BOOLEAN /\ max_concurrent_positions = DefaultCap
  /\ today = 1 /\ order_seq = 0
  /\ LedgerFresh /\ DriverIdle /\ pc = "wait" /\ ApiIdle /\ GapIdle /\ AuxIdle

\* run_live line 149: sleep to the next candle close; the UTC date may roll over
Wait ==
  /\ pc = "wait"
  /\ cycle < MaxCycles
  /\ today' \in {today, Min(today + 1, MaxDay)}
  /\ pc' = "manage"
  /\ sym_idx' = 1
  /\ raised' = FALSE
  /\ prog' = NoProgress
  /\ UNCHANGED <<paper, max_concurrent_positions, order_seq, cycle, pending, balance, breach_day, calls, call, ret>>
  /\ UNCHANGED <<gapVars, ledgerVars, sideVars>>

\* run_live line 150: manage_positions, one symbol of its loop; a raise is not
\* caught by run_live and ends the process
ManagePositions ==
  /\ pc = "manage"
  /\ \E price \in TickerPrices \cup {None} :
       LET r == manage_symbol(positions, paper_balance, Symbols[sym_idx], price, today)
       IN  /\ positions' = r.positions
           /\ paper_balance' = r.paper_balance
           /\ raised' = r.raised
           /\ IF r.raised THEN pc' = "crashed" /\ sym_idx' = sym_idx /\ prog' = prog
              ELSE IF sym_idx < Len(Symbols)
              THEN pc' = "manage" /\ sym_idx' = sym_idx + 1 /\ prog' = prog
              ELSE pc' = "process" /\ sym_idx' = 1 /\ prog' = [prog EXCEPT !.managed = TRUE]
  /\ UNCHANGED <<fvgs, daily, state_file, envVars, cycle, pending, balance, breach_day,
                 calls, call, ret>>
  /\ UNCHANGED <<gapVars, sideVars>>

\* run_live lines 151-156: on to the next symbol, or to the save
NextSymbol ==
  /\ prog' = [prog EXCEPT !.processed = @ \cup {Symbols[sym_idx]}]
  /\ IF sym_idx < Len(Symbols) THEN pc' = "process" /\ sym_idx' = sym_idx + 1
     ELSE pc' = "save" /\ sym_idx' = 1

\* process_symbol lines 45-101 for the current symbol, under run_live's
\* try/except: up to the daily-loss check
ProcessSymbol ==
  /\ pc = "process"
  /\ LET symbol == Symbols[sym_idx]
         Skip == /\ NextSymbol
                 /\ UNCHANGED <<fvgs, daily, pending, balance, breach_day>>
     IN  IF at_capacity(positions, max_concurrent_positions) THEN Skip /\ raised' = FALSE
         ELSE IF has_open_position(positions, symbol) THEN Skip /\ raised' = FALSE
         ELSE \E outcome \in {"ok", "fetch_failed", "malformed"}, frame \in LiveFrames,
                 fetched \in (IF paper THEN {paper_balance} ELSE LiveBalances) :
                \* fetch_ohlcv_data raised: caught at line 58
                IF outcome = "fetch_failed" THEN Skip /\ raised' = FALSE
                \* a frame calculate_macd cannot digest: the raise leaves
                \* process_symbol and is caught at run_live line 154
                ELSE IF outcome = "malformed" THEN Skip /\ raised' = TRUE
                ELSE IF frame = <<>> THEN Skip /\ raised' = FALSE
                ELSE LET active_fvgs == detect_fvg(frame, fvgs[symbol])
                         sigs == check_entry_trigger(frame, active_fvgs,
                                   ConfigRecentCrossover, ConfigCrossoverLookback)
                         h == hit_daily_loss_limit(daily, fetched, today)
                     IN  /\ fvgs' = [fvgs EXCEPT ![symbol] = active_fvgs]
                         /\ raised' = FALSE
                         /\ IF sigs = <<>>
                            THEN NextSymbol /\ UNCHANGED <<daily, pending, balance, breach_day>>
                            ELSE /\ daily' = h.daily
                                 /\ IF h.hit
                                    THEN /\ breach_day' = today
                                         /\ pending' = <<>>
                                         /\ balance' = RInt(0)
                                         /\ NextSymbol
                                    ELSE /\ breach_day' = breach_day
                                         /\ pending' = sigs
                                         /\ balance' = fetched
                                         /\ pc' = "trade" /\ sym_idx' = sym_idx
                                         /\ prog' = prog
  /\ UNCHANGED <<positions, paper_balance, state_file, envVars, cycle, calls, call, ret>>
  /\ UNCHANGED <<gapVars, sideVars>>

\* process_symbol lines 103-144: one signal of the loop
ExecuteSignal ==
  /\ pc = "trade"
  /\ pending # <<>>
  /\ order_seq < MaxOrders
  /\ LET symbol == Symbols[sym_idx]
         signal == Head(pending)
         amount == calculate_position_size(balance, risk_per_trade, signal.entry_price, signal.sl)
     IN  \E min_size \in MinSizes, px \in FillPrices,
            ok \in GatewayAnswers, sl_ok \in GatewayAnswers, tp_ok \in GatewayAnswers :
           IF min_size # RInt(0) /\ RLt(amount, min_size)
           THEN /\ UNCHANGED <<positions, paper_balance, order_seq>>
                /\ raised' = FALSE
           ELSE LET r == execute_trade(paper, positions, paper_balance, symbol, signal.side,
                           amount, signal.sl, signal.tp, px, ok, sl_ok, tp_ok,
                           today, order_seq + 1)
                IN  /\ positions' = r.positions
                    /\ paper_balance' = r.paper_balance
                    /\ order_seq' = IF r.raised THEN order_seq ELSE order_seq + 1
                    /\ raised' = r.raised
  /\ pending' = Tail(pending)
  /\ IF Tail(pending) = <<>>
     THEN NextSymbol /\ balance' = RInt(0)
     ELSE pc' = "trade" /\ sym_idx' = sym_idx /\ balance' = balance /\ prog' = prog
  /\ UNCHANGED <<fvgs, daily, state_file, today, paper, max_concurrent_positions, cycle, breach_day, calls, call, ret>>
  /\ UNCHANGED <<gapVars, sideVars>>

\* run_live going back to wait_for_next_close without the save
SaveState_NoSave ==
  /\ pc = "save"
  /\ state_file' = state_file
  /\ prog' = prog
  /\ cycle' = cycle + 1
  /\ pc' = "wait"
  /\ sym_idx' = 1
  /\ raised' = FALSE
  /\ UNCHANGED <<positions, fvgs, paper_balance, daily, envVars, pending, balance,
                 breach_day, calls, call, ret>>
  /\ UNCHANGED <<gapVars, sideVars>>

\* run_live line 156: save_state
SaveState ==
  /\ pc = "save"
  /\ state_file' = Snapshot
  /\ prog' = [prog EXCEPT !.saves = @ + 1]
  /\ cycle' = cycle + 1
  /\ pc' = "wait"
  /\ sym_idx' = 1
  /\ raised' = FALSE
  /\ UNCHANGED <<positions, fvgs, paper_balance, daily, envVars, pending, balance,
                 breach_day, calls, call, ret>>
  /\ UNCHANGED <<gapVars, sideVars>>

NextLive == Wait \/ ManagePositions \/ ProcessSymbol \/ ExecuteSignal \/ SaveState

SpecLive == InitLive /\ [][NextLive]_vars

\* ------------------------------------------- the ledger's operations, called
\* ------------------------------------------- directly in any order

\* signals a caller may trade on: a long and a short
ApiSignals ==
  {[side |-> "buy", entry_price |-> 6, sl |-> 2, tp |-> 14],
   [side |-> "sell", entry_price |-> 4, sl |-> 6, tp |-> 0]}

InitLedger ==
  /\ paper \in BOOLEAN /\ max_concurrent_positions = DefaultCap
  /\ today = 1 /\ order_seq = 0
  /\ LedgerFresh /\ DriverIdle /\ pc = "api" /\ ApiIdle /\ GapIdle /\ AuxIdle

\* execute_trade (and with it open_position) for any symbol, sized as
\* process_symbol sizes it
ApiExecuteTrade ==
  /\ pc = "api"
  /\ calls < MaxCalls
  /\ calls' = calls + 1
  /\ order_seq < MaxOrders
  /\ \E symbol \in SymbolSet, signal \in ApiSignals, px \in {6, None},
        ok \in GatewayAnswers, sl_ok \in GatewayAnswers, tp_ok \in GatewayAnswers :
       LET fetched == IF paper THEN paper_balance ELSE starting_balance
           amount == calculate_position_size(fetched, risk_per_trade,
                                             signal.entry_price, signal.sl)
           r == execute_trade(paper, positions, paper_balance, symbol, signal.side,
                              amount, signal.sl, signal.tp, px, ok, sl_ok, tp_ok,
                              today, order_seq + 1)
       IN  /\ positions' = r.positions
           /\ paper_balance' = r.paper_balance
           /\ order_seq' = IF r.raised THEN order_seq ELSE order_seq + 1
           /\ raised' = r.raised
           /\ ret' = IF r.raised THEN NoPosition ELSE r.positions[symbol]
           /\ call' = [op |-> "execute_trade", symbol |-> symbol, orders |-> r.orders]
  /\ UNCHANGED <<fvgs, daily, state_file, today, paper, max_concurrent_positions, liveVars>>
  /\ UNCHANGED <<gapVars, auxVars>>

\* close_position for any symbol, price and reason
ApiClosePosition ==
  /\ pc = "api"
  /\ calls < MaxCalls
  /\ calls' = calls + 1
  /\ \E symbol \in SymbolSet, exit_price \in TickerPrices :
       LET reason == IF exit_price <= 2 THEN "stop_loss" ELSE "take_profit"
           r == close_position(positions, paper_balance, symbol, exit_price, reason, today)
       IN  /\ positions' = r.positions
           /\ paper_balance' = r.paper_balance
           /\ raised' = r.raised
           /\ ret' = r.ret
           /\ call' = [op |-> "close_position", symbol |-> symbol]
  /\ UNCHANGED <<fvgs, daily, state_file, envVars, liveVars>>
  /\ UNCHANGED <<gapVars, auxVars>>

\* manage_positions over all symbols
ApiManagePositions ==
  /\ pc = "api"
  /\ calls < MaxCalls
  /\ calls' = calls + 1
  /\ \E prices \in [SymbolSet -> TickerPrices \cup {None}] :
       LET r == manage_positions(positions, paper_balance, 1, prices, today)
       IN  /\ positions' = r.positions
           /\ paper_balance' = r.paper_balance
           /\ raised' = r.raised
  /\ ret' = NoPosition
  /\ call' = [op |-> "manage_positions", symbol |-> ""]
  /\ UNCHANGED <<fvgs, daily, state_file, envVars, liveVars>>
  /\ UNCHANGED <<gapVars, auxVars>>

\* hit_daily_loss_limit on the current balance
ApiHitDailyLossLimit ==
  /\ pc = "api"
  /\ calls < MaxCalls
  /\ calls' = calls + 1
  /\ LET h == hit_daily_loss_limit(daily, paper_balance, today)
     IN  /\ daily' = h.daily
         /\ breach_day' = IF h.hit THEN today ELSE breach_day
  /\ ret' = NoPosition
  /\ raised' = FALSE
  /\ call' = [op |-> "hit_daily_loss_limit", symbol |-> ""]
  /\ UNCHANGED <<positions, fvgs, paper_balance, state_file, envVars>>
  /\ UNCHANGED <<pc, cycle, sym_idx, pending, balance>>
  /\ UNCHANGED <<gapVars, auxVars>>

\* update_fvgs with a detector result
ApiUpdateFvgs ==
  /\ pc = "api"
  /\ calls < MaxCalls
  /\ calls' = calls + 1
  /\ \E symbol \in SymbolSet, frame \in LiveFrames \ {<<>>} :
       fvgs' = [fvgs EXCEPT ![symbol] = detect_fvg(frame, <<>>)]
  /\ ret' = NoPosition
  /\ raised' = FALSE
  /\ call' = [op |-> "update_fvgs", symbol |-> ""]
  /\ UNCHANGED <<positions, paper_balance, daily, state_file, envVars, liveVars>>
  /\ UNCHANGED <<gapVars, auxVars>>

\* the UTC date rolls over
ApiTick ==
  /\ pc = "api"
  /\ calls < MaxCalls
  /\ calls' = calls + 1
  /\ today < MaxDay
  /\ today' = today + 1
  /\ ret' = NoPosition
  /\ raised' = FALSE
  /\ call' = [op |-> "tick", symbol |-> ""]
  /\ UNCHANGED <<ledgerVars, paper, max_concurrent_positions, order_seq, liveVars>>
  /\ UNCHANGED <<gapVars, auxVars>>

NextLedger ==
  \/ ApiExecuteTrade \/ ApiClosePosition \/ ApiManagePositions
  \/ ApiHitDailyLossLimit \/ ApiUpdateFvgs \/ ApiTick

SpecLedger == InitLedger /\ [][NextLedger]_vars

\* ---------------------------------------------- claims on the live driver

\* a step stores a new open record for symbol s
Opens(s) == positions'[s].status = "open" /\ positions'[s] # positions[s]

\* C2: in the live driver open_position is never invoked for a symbol whose
\* recorded position is open: an open record is only ever replaced by its own
\* closed form, never overwritten by another open one.
C2_NoOpenOverOpen ==
  [][\A s \in SymbolSet : positions[s].status = "open" => ~Opens(s)]_vars

\* C3: a failure raised while one symbol is handled, in manage_positions or in
\* process_symbol, is caught: the loop is never ended by it.
C3_FailureContained == pc # "crashed"

\* C4: once the daily loss limit was reported as breached on a UTC date, no
\* position is opened for any symbol for the rest of that date.
C4_NoEntryAfterBreach ==
  [][(breach_day = today) => \A s \in SymbolSet : ~Opens(s)]_vars

\* the live loop under a cap below the number of configured symbols, so that
\* the cap and not the symbol list limits what can be open
TightCaps == 1..(Len(Symbols) - 1)

InitCap ==
  /\ paper \in BOOLEAN /\ max_concurrent_positions \in TightCaps
  /\ today = 1 /\ order_seq = 0
  /\ LedgerFresh /\ DriverIdle /\ pc = "wait" /\ ApiIdle /\ GapIdle /\ AuxIdle

SpecCap == InitCap /\ [][NextLive]_vars

\* C26: starting from a ledger with at most max_concurrent_positions open
\* positions, after any sequence of live cycles (position management, then
\* per-symbol entry processing) the number of positions with status open
\* never exceeds max_concurrent_positions.
C26_CapRespected ==
  total_open_positions(positions) <= max_concurrent_positions

\* the cap is reached and process_symbol is entered for a symbol that has no
\* open position
C26_Witness ==
  /\ pc = "process"
  /\ total_open_positions(positions) = max_concurrent_positions
  /\ ~has_open_position(positions, Symbols[sym_idx])

\* ---------------------------------------------------- claims on the ledger

\* the fields a close fixes
ExitFields(p) == <<p.status, p.exit_price, p.exit_reason, p.exit_time, p.pnl>>

\* C9: a closed record stays as it is: a further close_position on its symbol,
\* and every other ledger or driver operation, leaves status, exit price, exit
\* reason, exit time and pnl unchanged; only a fresh open for the symbol
\* replaces it.
C9_ClosedIsFinal ==
  [][\A s \in SymbolSet :
       positions[s].status = "closed" =>
         \/ /\ positions'[s].status = "closed"
            /\ ExitFields(positions'[s]) = ExitFields(positions[s])
            /\ positions'[s].entry_id = positions[s].entry_id
         \/ /\ positions'[s].status = "open"
            /\ positions'[s].entry_id > positions[s].entry_id
            /\ call'.op = "execute_trade" /\ call'.symbol = s]_vars

\* close_position was called again on a closed record, which kept the exit
\* price and pnl of its first close
C9_Witness ==
  /\ call.op = "close_position"
  /\ positions[call.symbol].status = "closed"
  /\ ret = NoPosition
  /\ positions[call.symbol].exit_price = 14
  /\ positions[call.symbol].pnl # RInt(0)

\* C10: close_position on a symbol that has no record, or whose record is
\* closed, returns nothing, raises nothing, and leaves the paper balance, the
\* position records, the stored gaps and the daily window unchanged.
C10_CloseNoOp ==
  [][(call'.op = "close_position" /\ calls' = calls + 1
        /\ positions[call'.symbol].status # "open") =>
       /\ ret' = NoPosition
       /\ raised' = FALSE
       /\ UNCHANGED <<positions, fvgs, paper_balance, daily>>]_vars

\* close_position was called for a symbol without a record while the other
\* symbol's position is open and gaps are stored
C10_Witness ==
  /\ call.op = "close_position"
  /\ positions[call.symbol].status = "none"
  /\ ret = NoPosition /\ ~raised
  /\ \E s \in SymbolSet : positions[s].status = "open"
  /\ \E s \in SymbolSet : fvgs[s] # <<>>

DailyStarts == {RInt(0), RInt(100), RInt(10000)}
DailyWindows == {[date |-> d, start_balance |-> b] : d \in 0..MaxDay, b \in DailyStarts}

\* balances passed to hit_daily_loss_limit
CalcBalances ==
  {RInt(0), RInt(94), RInt(95), RInt(96), RInt(100), RInt(9500), RInt(9501), RInt(10000)}

InitCalc ==
  /\ paper = TRUE /\ max_concurrent_positions = DefaultCap
  /\ today = 1 /\ order_seq = 0
  /\ LedgerFresh /\ DriverIdle /\ pc = "calc" /\ ApiIdle /\ GapIdle /\ AuxIdle

\* hit_daily_loss_limit(balance) on a ledger holding the window day, at date now
CallHitDailyLossLimit ==
  /\ pc = "calc"
  /\ \E day \in DailyWindows, bal \in CalcBalances, now \in 1..MaxDay :
       fn' = [op |-> "hit_daily_loss_limit", day |-> day, balance |-> bal, now |-> now,
              result |-> hit_daily_loss_limit(day, bal, now)]
  /\ UNCHANGED <<gapVars, ledgerVars, envVars, liveVars, apiVars, prog, btVars>>

\* arguments of calculate_position_size: balances, risk fractions, and entry
\* and stop prices on both sides of zero
SizerBalances == {RInt(0), RInt(100), RInt(10000)}
SizerRisks == {Rat(1, 100), Rat(1, 10)}
SizerPrices == {-2, 0, 2, 4, 95, 100}

\* calculate_position_size(balance, risk_pct, entry, sl)
CallPositionSize ==
  /\ pc = "calc"
  /\ \E bal \in SizerBalances, risk_pct \in SizerRisks,
        entry \in SizerPrices, sl \in SizerPrices :
       fn' = [op |-> "calculate_position_size", balance |-> bal, risk_pct |-> risk_pct,
              entry |-> entry, sl |-> sl,
              result |-> calculate_position_size(bal, risk_pct, entry, sl)]
  /\ UNCHANGED <<gapVars, ledgerVars, envVars, liveVars, apiVars, prog, btVars>>

NextCalc == CallHitDailyLossLimit \/ CallPositionSize

SpecCalc == InitCalc /\ [][NextCalc]_vars

\* C12: hit_daily_loss_limit(balance) first resets the daily window to
\* {today, balance} when the stored date is not the current UTC date, then
\* reports a breach exactly when balance <= start_balance * (1 - fraction).
C12_DailyLimit ==
  fn.op = "hit_daily_loss_limit" =>
    LET window == IF fn.day.date # fn.now
                  THEN [date |-> fn.now, start_balance |-> fn.balance]
                  ELSE fn.day
        threshold == RMul(window.start_balance, RSub(RInt(1), daily_loss_limit_pct))
    IN  /\ fn.result.daily = window
        /\ fn.result.hit <=> RLe(fn.balance, threshold)

\* C13: in the live loop the ledger state is saved exactly once per cycle,
\* after position management and after every configured symbol has been
\* processed; it is never saved between two symbols of the same cycle.
C13_SaveOncePerCycle ==
  [][/\ (prog'.saves # prog.saves /\ pc # "wait") =>
          /\ prog.managed /\ prog.processed = SymbolSet
          /\ prog.saves = 0 /\ prog'.saves = 1
          /\ state_file' = Snapshot
     /\ state_file' # state_file => (pc # "wait" /\ prog'.saves # prog.saves)
     /\ (pc = "wait" /\ pc' = "manage" /\ cycle > 0) => prog.saves = 1
     /\ cycle' # cycle => prog'.saves = 1]_vars

\* a second cycle is through its save, with a position on the books
C13_Witness ==
  /\ pc = "wait" /\ cycle = 2 /\ prog.saves = 1
  /\ state_file = Snapshot
  /\ \E s \in SymbolSet : positions[s].status # "none"

\* C21: whenever the position sizer yields a zero quantity for a signal, the
\* signal is skipped: the live driver places no order and records no position
\* for it (the ledger's positions, the entry orders handed out and the paper
\* balance are as before).
C21_ZeroQuantitySkipped ==
  [][(pc = "trade" /\ pending # <<>> /\
      calculate_position_size(balance, risk_per_trade,
                              Head(pending).entry_price, Head(pending).sl) = RInt(0)) =>
       /\ positions' = positions
       /\ order_seq' = order_seq
       /\ paper_balance' = paper_balance]_vars

\* C25: in paper mode, after a position was opened through the gateway's
\* simulated market order and later closed through the ledger, the paper
\* balance is the balance before the open plus the position's realized P&L.
\* Stated for the first position of a run, whose balance before the open is
\* the starting balance: once it is closed and nothing else was traded, the
\* paper balance is starting_balance + pnl.
C25_NotionalReturned ==
  (paper /\ order_seq = 1) =>
    \A s \in SymbolSet :
      (/\ positions[s].status = "closed"
       /\ \A t \in SymbolSet \ {s} : positions[t].status = "none") =>
        paper_balance = RAdd(starting_balance, positions[s].pnl)

\* C14: a position is recorded as open only after the stop-loss order and the
\* take-profit order for it have both been attempted, after the market entry
\* order; when the entry, the stop or the take-profit placement fails, no
\* position is recorded as open for that trade.
C14_BracketsBeforeRecord ==
  [][(call'.op = "execute_trade" /\ calls' = calls + 1) =>
       LET s == call'.symbol
           orders == call'.orders
       IN  /\ positions'[s] # positions[s] =>
                /\ positions'[s].status = "open"
                /\ Len(orders) = 3
                /\ orders[1].kind = "entry" /\ orders[2].kind = "stop"
                /\ orders[3].kind = "take_profit"
           /\ (\E i \in 1..Len(orders) : ~orders[i].ok) =>
                /\ positions' = positions
                /\ raised'
           /\ \A t \in SymbolSet \ {s} : positions'[t] = positions[t]]_vars

\* a live trade whose take-profit placement failed after the entry and the
\* stop were placed: nothing was recorded for its symbol
C14_Witness ==
  /\ call.op = "execute_trade" /\ ~paper /\ raised
  /\ Len(call.orders) = 3 /\ ~call.orders[3].ok
  /\ positions[call.symbol].status = "none"

\* ------------------------------------------------------------ run_backtest

\* the exit test applying the long's rule to a short as well
exit_hit_LongRule(pos, price) ==
  price <= pos.stop_loss \/ price >= pos.take_profit

\* run_backtest lines 186-197: the open position meets the bar's close
exit_hit(pos, price) ==
  IF pos.side = "buy"
  THEN price <= pos.stop_loss \/ price >= pos.take_profit
  ELSE price >= pos.stop_loss \/ price <= pos.take_profit

\* the P&L lines 190 and 195 add to equity
exit_pnl(pos, price) ==
  IF pos.side = "buy"
  THEN RMul(RInt(price - pos.entry_price), pos.amount)
  ELSE RMul(RInt(pos.entry_price - price), pos.amount)

\* the loop body opening on a signal whether or not a position is open
backtest_bar_NoOpenGuard(frame, i, act, eq, pos) ==
  LET window == SubSeq(frame, 1, i + 1)
      act1 == detect_fvg(window, act)
      sigs == check_entry_trigger(window, act1, ConfigRecentCrossover,
                                  ConfigCrossoverLookback)
      price == Row(window, i).close
      closes == pos # NoOpenPos /\ exit_hit(pos, price)
      eq1 == IF closes THEN RAdd(eq, exit_pnl(pos, price)) ELSE eq
      pos1 == IF closes THEN NoOpenPos ELSE pos
      signal == sigs[Len(sigs)]
      amount == calculate_position_size(eq1, risk_per_trade, signal.entry_price, signal.sl)
      same == [active |-> act1, signals |-> sigs, equity |-> eq1, open_pos |-> pos1,
               opened |-> FALSE]
  IN  IF sigs = <<>> THEN same
      ELSE IF RLe(amount, RInt(0)) THEN same
      ELSE [same EXCEPT !.opened = TRUE,
                        !.open_pos = [side |-> signal.side,
                                      entry_price |-> signal.entry_price,
                                      stop_loss |-> signal.sl,
                                      take_profit |-> signal.tp,
                                      amount |-> amount]]

\* the loop body sizing every entry on the starting balance
backtest_bar_StartBalance(frame, i, act, eq, pos) ==
  LET window == SubSeq(frame, 1, i + 1)
      act1 == detect_fvg(window, act)
      sigs == check_entry_trigger(window, act1, ConfigRecentCrossover,
                                  ConfigCrossoverLookback)
      price == Row(window, i).close
      closes == pos # NoOpenPos /\ exit_hit(pos, price)
      eq1 == IF closes THEN RAdd(eq, exit_pnl(pos, price)) ELSE eq
      pos1 == IF closes THEN NoOpenPos ELSE pos
      signal == sigs[Len(sigs)]
      amount == calculate_position_size(starting_balance, risk_per_trade, signal.entry_price, signal.sl)
      same == [active |-> act1, signals |-> sigs, equity |-> eq1, open_pos |-> pos1,
               opened |-> FALSE]
  IN  IF pos1 # NoOpenPos THEN same
      ELSE IF sigs = <<>> THEN same
      ELSE IF RLe(amount, RInt(0)) THEN same
      ELSE [same EXCEPT !.opened = TRUE,
                        !.open_pos = [side |-> signal.side,
                                      entry_price |-> signal.entry_price,
                                      stop_loss |-> signal.sl,
                                      take_profit |-> signal.tp,
                                      amount |-> amount]]

\* run_backtest lines 178-215, the loop body for bar i:
\* [active, signals, equity, open_pos, opened]
backtest_bar(frame, i, act, eq, pos) ==
  LET window == SubSeq(frame, 1, i + 1)
      act1 == detect_fvg(window, act)
      sigs == check_entry_trigger(window, act1, ConfigRecentCrossover,
                                  ConfigCrossoverLookback)
      price == Row(window, i).close
      closes == pos # NoOpenPos /\ exit_hit(pos, price)
      eq1 == IF closes THEN RAdd(eq, exit_pnl(pos, price)) ELSE eq
      pos1 == IF closes THEN NoOpenPos ELSE pos
      signal == sigs[Len(sigs)]
      amount == calculate_position_size(eq1, risk_per_trade, signal.entry_price, signal.sl)
      same == [active |-> act1, signals |-> sigs, equity |-> eq1, open_pos |-> pos1,
               opened |-> FALSE]
  IN  IF pos1 # NoOpenPos THEN same
      ELSE IF sigs = <<>> THEN same
      ELSE IF RLe(amount, RInt(0)) THEN same
      ELSE [same EXCEPT !.opened = TRUE,
                        !.open_pos = [side |-> signal.side,
                                      entry_price |-> signal.entry_price,
                                      stop_loss |-> signal.sl,
                                      take_profit |-> signal.tp,
                                      amount |-> amount]]

\* candles of a replayed series: the detector's, a wide one closing at its
\* high, and one at a long's target
BacktestCandles == Candles \cup {Candle(6, 2, 6), Candle(14, 14, 14)}

\* three candles that form a bullish gap (top 4, bottom 2) and three that form
\* a bearish one (top 6, bottom 4), at index 2
BullishStart == <<Candle(2, 2, 2), Candle(2, 2, 2), Candle(4, 4, 4)>>
BearishStart == <<Candle(6, 6, 6), Candle(6, 6, 6), Candle(4, 4, 4)>>

\* a series whose closes rise at every bar, with one bullish gap (top 18,
\* bottom 14, formed at index 5) that the next bar reaches back into after
\* the histogram has turned up; it ends on a bar at that trade's target, which
\* reaches back into the gap again or stays above it
RisingStart ==
  <<Candle(6, 4, 6), Candle(8, 8, 8), Candle(12, 2, 12), Candle(14, 4, 14),
    Candle(16, 8, 16), Candle(18, 18, 18), Candle(22, 6, 22)>>
RisingFrames == {RisingStart \o <<last>> : last \in {Candle(38, 2, 38), Candle(38, 18, 38)}}

\* what fetch_ohlcv_data hands run_backtest: nothing, or a series that forms a
\* gap and goes on for up to MaxBars candles, or a rising series
BacktestFrames ==
  {<<>>} \cup RisingFrames
        \cup {start \o rest : start \in {BullishStart, BearishStart},
                              rest \in SeqsUpTo(BacktestCandles, MaxBars)}

\* run_backtest lines 167-175 for one symbol
InitBacktest ==
  /\ df \in BacktestFrames
  /\ existing_fvgs = <<>> /\ active = <<>> /\ idx = 3 /\ fvg = NoGap /\ signals = <<>>
  /\ gpc = "idle"
  /\ paper = TRUE /\ max_concurrent_positions = DefaultCap
  /\ today = 1 /\ order_seq = 0
  /\ LedgerFresh /\ DriverIdle /\ ApiIdle
  /\ fn = NoFn /\ prog = NoProgress
  /\ balance = RInt(0)
  /\ equity = starting_balance /\ open_pos = NoOpenPos /\ trades = 0
  /\ pc = "backtest"

\* one bar of the replay
BacktestBar ==
  /\ pc = "backtest"
  /\ df # <<>>
  /\ idx < Len(df)
  /\ \E r \in {backtest_bar(df, idx, active, equity, open_pos)} :
         /\ active' = r.active
         /\ signals' = r.signals
         /\ equity' = r.equity
         /\ open_pos' = r.open_pos
         /\ trades' = IF r.opened THEN trades + 1 ELSE trades
  /\ idx' = idx + 1
  /\ UNCHANGED <<df, existing_fvgs, fvg, gpc>>
  /\ UNCHANGED <<ledgerVars, envVars, liveVars, apiVars, fn, prog>>

\* lines 168-169 (an empty series is skipped) and 217-218 (the replay is over:
\* the symbol's equity goes to the results)
BacktestEnd ==
  /\ pc = "backtest"
  /\ df = <<>> \/ idx >= Len(df)
  /\ pc' = IF df = <<>> THEN "bt_skipped" ELSE "bt_done"
  /\ UNCHANGED <<gapVars, ledgerVars, envVars, cycle, sym_idx, pending, balance, breach_day,
                 apiVars, auxVars>>

NextBacktest == BacktestBar \/ BacktestEnd

SpecBacktest == InitBacktest /\ [][NextBacktest]_vars

\* C15: in the replay at most one simulated position is open at any bar, and
\* while a position is open after the bar's stop/target check the signals of
\* that bar are ignored: no new position is created and the open position's
\* fields are unchanged.
C15_OnePositionAtATime ==
  [][(pc = "backtest" /\ idx' = idx + 1) =>
       /\ trades' \in {trades, trades + 1}
       /\ (trades' = trades + 1) => (open_pos = NoOpenPos \/ exit_hit(open_pos, Row(df, idx).close))
       /\ (open_pos # NoOpenPos /\ ~exit_hit(open_pos, Row(df, idx).close)) =>
            /\ open_pos' = open_pos
            /\ trades' = trades
            /\ equity' = equity]_vars

\* a bar gave a signal at another price while the position opened earlier was
\* still open: the position is the earlier one
C15_Witness ==
  /\ pc = "backtest" /\ trades = 1 /\ open_pos # NoOpenPos
  /\ signals # <<>>
  /\ signals[Len(signals)].entry_price # open_pos.entry_price

\* C22: at each backtest bar with an open simulated position, the position is
\* closed at the bar's close exactly when (long) close <= stop or close >=
\* target, or (short) close >= stop or close <= target; equity then changes by
\* (close - entry) * amount for a long, (entry - close) * amount for a short,
\* and only after this check may the bar open a new position; on every bar
\* where no position is closed equity is unchanged (and an open position stays
\* as it is).
C22_BacktestExit ==
  [][(pc = "backtest" /\ idx' = idx + 1) =>
       LET close == Row(df, idx).close
           long == open_pos.side = "buy"
           due == /\ open_pos # NoOpenPos
                  /\ IF long
                     THEN close <= open_pos.stop_loss \/ close >= open_pos.take_profit
                     ELSE close >= open_pos.stop_loss \/ close <= open_pos.take_profit
           gain == IF long THEN close - open_pos.entry_price
                   ELSE open_pos.entry_price - close
       IN  /\ due =>
                /\ equity' = RAdd(equity, RMul(RInt(gain), open_pos.amount))
                /\ open_pos' = NoOpenPos \/ trades' = trades + 1
           /\ ~due =>
                /\ equity' = equity
                /\ open_pos # NoOpenPos => (open_pos' = open_pos /\ trades' = trades)]_vars

\* a replay that began with a bearish gap has closed its one position, a short
\* of 5 entered at 4 and stopped out at 6, and holds none
C22_Witness ==
  /\ pc = "backtest" /\ trades = 1 /\ open_pos = NoOpenPos
  /\ SubSeq(df, 1, 3) = BearishStart
  /\ equity = RInt(90)

\* C24: in the backtest the quantity of every simulated entry is computed from
\* the running equity at that bar (the starting balance plus the realized P&L
\* of every trade closed so far, one closed on the same bar included), not
\* from the starting balance: quantity * |entry - stop| = equity * risk.
C24_SizedOnEquity ==
  [][(pc = "backtest" /\ trades' = trades + 1) =>
       LET dist == IF open_pos'.entry_price >= open_pos'.stop_loss
                   THEN open_pos'.entry_price - open_pos'.stop_loss
                   ELSE open_pos'.stop_loss - open_pos'.entry_price
       IN  RMul(open_pos'.amount, RInt(dist)) = RMul(equity', Rat(1, 10))]_vars

\* a second position was opened on the bar that closed the first with a gain:
\* it is sized on the equity of 120, not on the 100 the replay started with
C24_Witness ==
  /\ pc = "backtest" /\ trades = 2 /\ open_pos # NoOpenPos
  /\ equity = RInt(120)
  /\ RMul(open_pos.amount, RInt(open_pos.entry_price - open_pos.stop_loss)) = RInt(12)

\* the closes rise from each bar to the next
RisingSeries(frame) ==
  \A i \in 1..(Len(frame) - 1) : frame[i].close < frame[i + 1].close

\* the indices at which the scan of the whole series forms a gap
GapIndices(frame) == {i \in 2..(Len(frame) - 1) : ScanEmit(frame, i) # NoGap}

\* the series has one gap, a bullish one, and at some later bar, with a full
\* lookback window behind it, the gap passes every test of check_entry_trigger
OneBullishGapTriggered(frame) ==
  /\ Cardinality(GapIndices(frame)) = 1
  /\ \E i \in GapIndices(frame) :
       LET gap == ScanEmit(frame, i)
       IN  /\ gap.type = "bullish"
           /\ \E t \in (i + 1)..(Len(frame) - 1) :
                /\ t >= 3
                /\ t + 1 >= ConfigCrossoverLookback + 1
                /\ Triggers(SubSeq(frame, 1, t + 1), gap, TRUE, ConfigCrossoverLookback)

\* C16: a replay of a rising series that contains one bullish gap whose
\* midpoint is touched with a qualifying momentum crossover opens exactly one
\* simulated trade and ends with final equity >= the starting balance.
C16_RisingSeriesOneTrade ==
  (pc = "bt_done" /\ RisingSeries(df) /\ OneBullishGapTriggered(df)) =>
    /\ trades = 1
    /\ RLe(starting_balance, equity)

\* C17: the position sizer returns exactly 0 when entry <= 0, or stop <= 0, or
\* entry = stop, and otherwise (balance * risk_fraction) / |entry - stop|.
C17_PositionSize ==
  fn.op = "calculate_position_size" =>
    IF fn.entry <= 0 \/ fn.sl <= 0 \/ fn.entry = fn.sl
    THEN fn.result = RInt(0)
    ELSE RMul(fn.result, RInt(Abs(fn.entry - fn.sl))) = RMul(fn.balance, fn.risk_pct)

\* the sizer was called with 10000 at 1% risk, entry 100 and stop 95, and
\* returned 20
C17_Witness ==
  /\ fn.op = "calculate_position_size"
  /\ fn.balance = RInt(10000) /\ fn.risk_pct = Rat(1, 100)
  /\ fn.entry = 100 /\ fn.sl = 95 /\ fn.result = RInt(20)


\* ------------------------------------- a paper run, its save and the restart

\* signals of a paper run: a long with a wide stop, and a long whose stop is
\* as far from the entry as the risk fraction of it, so that the sized order
\* costs the whole balance
RunSignals ==
  {[side |-> "buy", entry_price |-> 6, sl |-> 2, tp |-> 14],
   [side |-> "buy", entry_price |-> 20, sl |-> 18, tp |-> 24]}

InitRestart ==
  /\ paper = TRUE /\ max_concurrent_positions = DefaultCap
  /\ today = 1 /\ order_seq = 0
  /\ LedgerFresh /\ DriverIdle /\ pc = "run" /\ ApiIdle /\ GapIdle /\ AuxIdle

\* process_symbol lines 97-134 on a signal: the daily window is brought to the
\* current date, and unless the limit is hit the order is sized on the paper
\* balance and filled at the ticker, which stands at the trigger close
RunTrade ==
  /\ pc = "run"
  /\ calls < MaxCalls
  /\ calls' = calls + 1
  /\ order_seq < MaxOrders
  /\ \E symbol \in SymbolSet, signal \in RunSignals :
       LET amount == calculate_position_size(paper_balance, risk_per_trade,
                                             signal.entry_price, signal.sl)
           r == execute_trade(paper, positions, paper_balance, symbol, signal.side,
                              amount, signal.sl, signal.tp, signal.entry_price,
                              TRUE, TRUE, TRUE, today, order_seq + 1)
           h == hit_daily_loss_limit(daily, paper_balance, today)
           skip == h.hit \/ r.raised
       IN  /\ ~at_capacity(positions, max_concurrent_positions)
           /\ ~has_open_position(positions, symbol)
           /\ daily' = h.daily
           /\ positions' = IF skip THEN positions ELSE r.positions
           /\ paper_balance' = IF skip THEN paper_balance ELSE r.paper_balance
           /\ order_seq' = IF skip THEN order_seq ELSE order_seq + 1
           /\ raised' = FALSE
           /\ ret' = IF skip THEN NoPosition ELSE r.positions[symbol]
           /\ call' = [op |-> "process_symbol", symbol |-> symbol]
  /\ UNCHANGED <<fvgs, state_file, today, paper, max_concurrent_positions, liveVars>>
  /\ UNCHANGED <<gapVars, auxVars>>

\* manage_positions at the start of a cycle
RunManage ==
  /\ pc = "run"
  /\ calls < MaxCalls
  /\ calls' = calls + 1
  /\ \E prices \in [SymbolSet -> TickerPrices] :
       LET r == manage_positions(positions, paper_balance, 1, prices, today)
       IN  /\ positions' = r.positions
           /\ paper_balance' = r.paper_balance
           /\ raised' = r.raised
  /\ ret' = NoPosition
  /\ call' = [op |-> "manage_positions", symbol |-> ""]
  /\ UNCHANGED <<fvgs, daily, state_file, envVars, liveVars>>
  /\ UNCHANGED <<gapVars, auxVars>>

\* process_symbol lines 56-96 on a symbol without a signal: the gap list is
\* stored; the UTC date may have rolled over
RunObserve ==
  /\ pc = "run"
  /\ calls < MaxCalls
  /\ calls' = calls + 1
  /\ today' \in {today, Min(today + 1, MaxDay)}
  /\ \E symbol \in SymbolSet, frame \in LiveFrames \ {<<>>} :
       fvgs' = [fvgs EXCEPT ![symbol] = detect_fvg(frame, fvgs[symbol])]
  /\ ret' = NoPosition
  /\ raised' = FALSE
  /\ call' = [op |-> "update_fvgs", symbol |-> ""]
  /\ UNCHANGED <<positions, paper_balance, daily, state_file, paper, max_concurrent_positions, order_seq, liveVars>>
  /\ UNCHANGED <<gapVars, auxVars>>

\* save_state at the end of a cycle, after which the process stops
RunSave ==
  /\ pc = "run"
  /\ state_file' = Snapshot
  /\ pc' = "saved"
  /\ call' = [op |-> "save_state", symbol |-> ""]
  /\ UNCHANGED <<positions, fvgs, paper_balance, daily, envVars>>
  /\ UNCHANGED <<cycle, sym_idx, pending, balance, breach_day, calls, ret, raised>>
  /\ UNCHANGED <<gapVars, auxVars>>

\* main(): PositionManager(...) loads the file, ExchangeManager(...) is built
\* on the loaded ledger
Restart ==
  /\ pc = "saved"
  /\ LET s == startup(state_file, paper)
     IN  /\ positions' = s.positions
         /\ fvgs' = s.fvgs
         /\ paper_balance' = s.paper_balance
         /\ daily' = s.daily
  /\ pc' = "up"
  /\ call' = [op |-> "startup", symbol |-> ""]
  /\ UNCHANGED <<state_file, envVars>>
  /\ UNCHANGED <<cycle, sym_idx, pending, balance, breach_day, calls, ret, raised>>
  /\ UNCHANGED <<gapVars, auxVars>>

NextRestart == RunTrade \/ RunManage \/ RunObserve \/ RunSave \/ Restart

SpecRestart == InitRestart /\ [][NextRestart]_vars

\* C18: for every ledger state, saving it and then starting up again from the
\* saved file (load_state, then construction of the gateway in paper mode)
\* yields positions, per-symbol gap lists, paper balance and daily window
\* identical to those that were saved.
C18_RoundTrip ==
  [][(pc = "saved" /\ pc' = "up" /\ paper) =>
       /\ positions' = positions
       /\ fvgs' = fvgs
       /\ paper_balance' = paper_balance
       /\ daily' = daily]_vars


\* ------------------------------------------------------ _call_with_retries

\* the client calls the gateway wraps
RetryFuncs == {"fetch_ohlcv", "fetch_ticker", "fetch_balance", "create_order"}

\* what a call that comes back can return
FuncResults == {2, 6}

\* how one invocation of the client call can end: it returns a value, or it
\* raises ccxt.RateLimitExceeded, ccxt.NetworkError, or an error of another
\* class (ccxt.ExchangeError)
Outcome(kind, value) == [kind |-> kind, value |-> value]
Outcomes ==
  {Outcome("ok", v) : v \in FuncResults}
    \cup {Outcome(k, None) : k \in {"RateLimitExceeded", "NetworkError", "ExchangeError"}}

\* the two except clauses of lines 47-54
transient(o) == o.kind \in {"RateLimitExceeded", "NetworkError"}

\* the loop going on for one attempt too many
retry_continues_OneMore(attempt) == attempt <= retry_attempts

\* line 44: for attempt in range(self.retry_attempts)
retry_continues(attempt) == attempt < retry_attempts

\* lines 48 and 52: delay = self.backoff_base ** attempt
backoff_delay(attempt) == Pow(backoff_base, attempt)

\* the frame of a call of _call_with_retries: the loop variable, how every
\* invocation of func ended, the delays slept, and what the call returned or
\* raised
RetryFrame(func) ==
  [op |-> "_call_with_retries", func |-> func, attempt |-> 0, outcomes |-> <<>>,
   delays |-> <<>>, result |-> None, error |-> ""]

InitRetry ==
  /\ paper = FALSE /\ max_concurrent_positions = DefaultCap
  /\ today = 1 /\ order_seq = 0
  /\ LedgerFresh /\ DriverIdle /\ pc = "retry" /\ ApiIdle /\ GapIdle
  /\ prog = NoProgress /\ BacktestIdle
  /\ \E func \in RetryFuncs : fn = RetryFrame(func)

\* lines 45-46 and the except clauses: func is invoked once; its value is
\* returned, a transient error leads to the back-off, any other error leaves
\* the function
Invoke ==
  /\ pc = "retry"
  /\ retry_continues(fn.attempt)
  /\ \E o \in Outcomes :
       /\ fn' = [fn EXCEPT !.outcomes = Append(@, o),
                           !.result = o.value,
                           !.error = IF o.kind = "ok" THEN "" ELSE o.kind]
       /\ pc' = IF o.kind = "ok" THEN "returned"
                ELSE IF transient(o) THEN "backoff"
                ELSE "raised"
  /\ UNCHANGED <<cycle, sym_idx, pending, balance, breach_day>>
  /\ UNCHANGED <<gapVars, ledgerVars, envVars, apiVars, prog, btVars>>

\* lines 48-50 and 52-54: the delay is computed and slept, the loop moves on
Backoff ==
  /\ pc = "backoff"
  /\ fn' = [fn EXCEPT !.delays = Append(@, backoff_delay(fn.attempt)),
                      !.attempt = @ + 1]
  /\ pc' = "retry"
  /\ UNCHANGED <<cycle, sym_idx, pending, balance, breach_day>>
  /\ UNCHANGED <<gapVars, ledgerVars, envVars, apiVars, prog, btVars>>

\* line 55: the loop is over, RuntimeError("Max retries exceeded ...")
GiveUp ==
  /\ pc = "retry"
  /\ ~retry_continues(fn.attempt)
  /\ fn' = [fn EXCEPT !.error = "RuntimeError"]
  /\ pc' = "raised"
  /\ UNCHANGED <<cycle, sym_idx, pending, balance, breach_day>>
  /\ UNCHANGED <<gapVars, ledgerVars, envVars, apiVars, prog, btVars>>

NextRetry == Invoke \/ Backoff \/ GiveUp

\* the interpreter keeps executing the function: a step that can be taken is
\* taken (func comes back or raises, time.sleep comes back)
SpecRetry == InitRetry /\ [][NextRetry]_vars /\ WF_vars(NextRetry)

RetryDone == pc \in {"returned", "raised"}

\* how many invocations ended in a rate-limit or network error
TransientFailures ==
  Cardinality({k \in 1..Len(fn.outcomes) : transient(fn.outcomes[k])})

\* C19: _call_with_retries invokes the underlying function at most 3 times,
\* returns the result of the first attempt that succeeds, backs off by
\* backoff_base^attempt (1, 2, 4) after each rate-limit or network failure,
\* raises a terminal failure once 3 attempts have failed transiently, and
\* always terminates.
C19_Retries ==
  /\ [](pc \in {"retry", "backoff", "returned", "raised"} =>
         /\ Len(fn.outcomes) <= 3
         /\ pc = "returned" =>
              /\ fn.outcomes[Len(fn.outcomes)].kind = "ok"
              /\ fn.result = fn.outcomes[Len(fn.outcomes)].value
              /\ \A k \in 1..(Len(fn.outcomes) - 1) : fn.outcomes[k].kind # "ok"
         /\ pc # "backoff" =>
              /\ Len(fn.delays) = TransientFailures
              /\ \A k \in 1..Len(fn.delays) : fn.delays[k] = <<1, 2, 4>>[k]
         /\ (RetryDone /\ TransientFailures = 3) =>
              pc = "raised" /\ fn.error = "RuntimeError")
  /\ <>RetryDone

\* three attempts failed transiently, 1, 2 and 4 were slept and the terminal
\* failure was raised
C19_Witness ==
  /\ pc = "raised" /\ fn.error = "RuntimeError"
  /\ Len(fn.outcomes) = 3 /\ TransientFailures = 3
  /\ fn.delays = <<1, 2, 4>>

====
